---------------------------- MODULE Spec2Model ----------------------------
(***************************************************************************)
(* Model of timeutils/week.py: the Weekday enumeration, the Week value     *)
(* type and the weeks_of_year generator.                                   *)
(*                                                                         *)
(* A datetime.date is represented by its proleptic Gregorian ordinal       *)
(* (date.toordinal()); date(y, m, d), .year, .month, .day and              *)
(* .isoweekday() are computed from it the way the datetime module does.    *)
(* date + timedelta is ordinal + timedelta.days.  The MINYEAR / MAXYEAR     *)
(* limits of datetime.date are not modelled.                               *)
(* A datetime.timedelta is the record [days, seconds] of its normalised    *)
(* fields (0 <= seconds < 86400); microseconds are folded into seconds.    *)
(***************************************************************************)
EXTENDS Integers, Sequences, FiniteSets

(***************************************************************************)
(* Bounds of the model.                                                    *)
(***************************************************************************)
\* Years of the calendar and generator specifications: YearLo .. YearHi.
YearLo == 1896
YearHi == 2003
\* Years whose dates are the inputs of the Week specification.
WeekYearLo == 2019
WeekYearHi == 2021
\* Plain integers n offered to arithmetic: -MaxInt .. MaxInt.
MaxInt == 16
\* Whole weeks offered to Week + n / Week - n: -MaxWeeks .. MaxWeeks.
MaxWeeks == 2
\* timedelta.days offered to Week + timedelta: -MaxDays .. MaxDays.
MaxDays == 15
\* Dates probed around a week by "in": start - Margin .. end + Margin.
Margin == 3

(***************************************************************************)
(* datetime.date                                                           *)
(***************************************************************************)
DI400Y == 146097
DI100Y == 36524
DI4Y == 1461
SECONDS_PER_DAY == 86400

DAYS_IN_MONTH == <<31, 28, 31, 30, 31, 30, 31, 31, 30, 31, 30, 31>>

DAYS_BEFORE_MONTH == <<0, 31, 59, 90, 120, 151, 181, 212, 243, 273, 304, 334>>

is_leap(year) ==
    year % 4 = 0 /\ (year % 100 # 0 \/ year % 400 = 0)

days_before_year(year) ==
    LET y == year - 1
    IN  y * 365 + (y \div 4) - (y \div 100) + (y \div 400)

days_before_month(year, month) ==
    DAYS_BEFORE_MONTH[month] + (IF month > 2 /\ is_leap(year) THEN 1 ELSE 0)

\* date(year, month, day).toordinal()
ymd2ord(year, month, day) ==
    days_before_year(year) + days_before_month(year, month) + day

\* date.fromordinal(n) as the record [year, month, day]
ord2ymd(ordinal) ==
    LET n0   == ordinal - 1
        n400 == n0 \div DI400Y
        r400 == n0 % DI400Y
        n100 == r400 \div DI100Y
        r100 == r400 % DI100Y
        n4   == r100 \div DI4Y
        r4   == r100 % DI4Y
        n1   == r4 \div 365
        n    == r4 % 365
        year == n400 * 400 + 1 + n100 * 100 + n4 * 4 + n1
        leapyear == n1 = 3 /\ (n4 # 24 \/ n100 = 3)
        m0   == (n + 50) \div 32
        p0   == DAYS_BEFORE_MONTH[m0] + (IF m0 > 2 /\ leapyear THEN 1 ELSE 0)
        month == IF p0 > n THEN m0 - 1 ELSE m0
        preceding == IF p0 > n
                     THEN p0 - (DAYS_IN_MONTH[month]
                                + (IF month = 2 /\ leapyear THEN 1 ELSE 0))
                     ELSE p0
    IN  IF n1 = 4 \/ n100 = 4
        THEN [year |-> year - 1, month |-> 12, day |-> 31]
        ELSE [year |-> year, month |-> month, day |-> n - preceding + 1]

date_year(d) == ord2ymd(d).year

date_month(d) == ord2ymd(d).month

date_day(d) == ord2ymd(d).day

\* date.isoweekday(): Monday = 1 .. Sunday = 7
isoweekday(d) ==
    IF d % 7 = 0 THEN 7 ELSE d % 7

\* timedelta(days = days, seconds = seconds), normalised
timedelta(days, seconds) ==
    [days    |-> days + (seconds \div SECONDS_PER_DAY),
     seconds |-> seconds % SECONDS_PER_DAY]

\* -timedelta
timedelta_neg(td) == timedelta(-td.days, -td.seconds)

\* date + timedelta: the sub-day fields of the timedelta are ignored
date_add(d, td) == d + td.days

(***************************************************************************)
(* class Weekday(IntEnum)                                                  *)
(***************************************************************************)
MONDAY == 1
TUESDAY == 2
WEDNESDAY == 3
THURSDAY == 4
FRIDAY == 5
SATURDAY == 6
SUNDAY == 7

Weekday == MONDAY .. SUNDAY

\* Mutant of Weekday.__add__: a remainder that keeps the sign of the dividend
Weekday__add__truncating(self, other) ==
    LET x == self + other - 1
    IN  (IF x >= 0 THEN x % 7 ELSE -((-x) % 7)) + 1

\* Weekday.__add__(self, other)
Weekday__add__(self, other) ==
    ((self + other - 1) % 7) + 1

\* Mutant of the Weekday difference: the modulo left out
Weekday__sub__Weekday_unwrapped(self, other) ==
    self - other

\* Weekday.__sub__(self, other) with other a Weekday: the difference 0..6
Weekday__sub__Weekday(self, other) ==
    (self - other) % 7

\* Weekday.__sub__(self, other) with other a plain int
Weekday__sub__int(self, other) ==
    Weekday__add__(self, -other)

\* Weekday.for_date(date_)
for_date(date_) == isoweekday(date_)

\* Mutant of Weekday.first_of_year: a remainder that keeps the sign of the
\* dividend, so the day is not normalised into 1..7
first_of_year_truncating(self, year) ==
    LET x   == self - isoweekday(ymd2ord(year, 1, 1))
        day == 1 + (IF x >= 0 THEN x % 7 ELSE -((-x) % 7))
    IN  ymd2ord(year, 1, day)

\* Weekday.first_of_year(self, year)
first_of_year(self, year) ==
    LET day == 1 + ((self - isoweekday(ymd2ord(year, 1, 1))) % 7)
    IN  ymd2ord(year, 1, day)

(***************************************************************************)
(* class Week: a Week is its only slot, start                              *)
(***************************************************************************)
SEVEN_DAYS == timedelta(7, 0)

\* Week(start)
Week(start) == [start |-> start]

\* Mutant of Week.with_date: the modulo left out
with_date_unwrapped(date_, first_weekday) ==
    Week(date_add(date_, timedelta(-(isoweekday(date_) - first_weekday), 0)))

\* Week.with_date(date_, first_weekday)
with_date(date_, first_weekday) ==
    Week(date_add(date_,
                  timedelta(-((isoweekday(date_) - first_weekday) % 7), 0)))

\* Mutant of Week.with_number: anchored on the first occurrence of the first
\* weekday instead of the midday
with_number_from_first_weekday(year, number, first_weekday) ==
    LET first_start == first_of_year(first_weekday, year)
    IN  Week(date_add(first_start, timedelta(7 * (number - 1), 0)))

\* Week.with_number(year, number, first_weekday)
with_number(year, number, first_weekday) ==
    LET first_midday == first_of_year(Weekday__add__(first_weekday, 3), year)
    IN  Week(date_add(first_midday, timedelta(7 * (number - 1) - 3, 0)))

\* Week.end
Week_end(self) == date_add(self.start, SEVEN_DAYS)

\* Week.__len__
Week__len__(self) == Cardinality(Weekday)

\* Mutant of Week.__contains__: the interval closed at its end
Week__contains__closed(self, date_) ==
    self.start <= date_ /\ date_ <= Week_end(self)

\* Week.__contains__(self, date_)
Week__contains__(self, date_) ==
    self.start <= date_ /\ date_ < Week_end(self)

\* list(iter(self)): the dates the generator of Week.__iter__ yields, in order
Week__iter__(self) ==
    [i \in 1 .. Week__len__(self) |-> date_add(self.start, timedelta(i - 1, 0))]

\* Week.__eq__(self, other) for other a Week
Week__eq__(self, other) == self.start = other.start

\* Week.__gt__(self, other) for other a Week
Week__gt__(self, other) == self.start > other.start

\* A plain int operand of Week + other / Week - other
int(value) == [value |-> value]

\* -other, for a plain int or a timedelta
neg(other) ==
    IF "days" \in DOMAIN other THEN timedelta_neg(other) ELSE int(-other.value)

\* Week.__add__(self, other): [err, val]; err # "" is the exception raised
Week__add__(self, other) ==
    LET td == IF "days" \in DOMAIN other
              THEN other
              ELSE timedelta(7 * other.value, 0)
    IN  IF td.days % 7 # 0
        THEN [err |-> "ValueError: must add only whole weeks"]
        ELSE [err |-> "", val |-> Week(date_add(self.start, td))]

\* Week.__sub__(self, other)
Week__sub__(self, other) ==
    Week__add__(self, neg(other))

\* Week.first_weekday
first_weekday_of(self) == for_date(self.start)

\* Week.weekday_date(self, weekday)
weekday_date(self, weekday) ==
    date_add(self.start,
             timedelta(Weekday__sub__Weekday(weekday, first_weekday_of(self)), 0))

\* Mutant of Week.year: the year of the start instead of the midday
Week_year_of_start(self) == date_year(self.start)

\* Week.year
Week_year(self) == date_year(date_add(self.start, timedelta(3, 0)))

\* Mutant of Week.number: counted from the first occurrence of the first
\* weekday instead of the midday
Week_number_from_first_weekday(self) ==
    LET first_start == first_of_year(first_weekday_of(self), Week_year(self))
    IN  1 + ((self.start - first_start) \div 7)

\* Mutant of Week.number: counted from 0
Week_number_from_zero(self) ==
    LET my_midday    == date_add(self.start, timedelta(3, 0))
        first_midday == first_of_year(Weekday__add__(first_weekday_of(self), 3),
                                      Week_year(self))
    IN  (my_midday - first_midday) \div 7

\* Week.number
Week_number(self) ==
    LET my_midday    == date_add(self.start, timedelta(3, 0))
        first_midday == first_of_year(Weekday__add__(first_weekday_of(self), 3),
                                      Week_year(self))
    IN  1 + ((my_midday - first_midday) \div 7)


\* str(n) for an int n, as the sequence of its characters
RECURSIVE str_int(_)
str_int(n) ==
    LET digit == <<"0", "1", "2", "3", "4", "5", "6", "7", "8", "9">>
    IN  IF n < 0 THEN <<"-">> \o str_int(-n)
        ELSE IF n < 10 THEN <<digit[n + 1]>>
        ELSE str_int(n \div 10) \o <<digit[(n % 10) + 1]>>

\* format(n, '02'): zero-padded to a minimum width of 2
format_02(n) ==
    LET s == str_int(n)
    IN  IF Len(s) >= 2 THEN s
        ELSE IF n < 0 THEN <<"-", "0">> \o Tail(s)
        ELSE <<"0">> \o s

\* Week.__str__: f'{self.year}-W{self.number:02}'
Week__str__(self) ==
    str_int(Week_year(self)) \o <<"-", "W">> \o format_02(Week_number(self))

(***************************************************************************)
(* State.  self is the object an operation is applied to, op the name of   *)
(* the last operation applied, args its other arguments and ret what it    *)
(* returned.  pc and w are the position and the local variable of the      *)
(* weeks_of_year generator, whose yielded weeks are collected in ret.      *)
(***************************************************************************)
VARIABLES self, op, args, ret, pc, w

vars == <<self, op, args, ret, pc, w>>

Years == YearLo .. YearHi

Ints == (-MaxInt) .. MaxInt

\* Every date of the years lo .. hi
DatesOf(lo, hi) == ymd2ord(lo, 1, 1) .. ymd2ord(hi, 12, 31)

\* The operands offered to Week + other and Week - other
Others ==
    {int(n) : n \in (-MaxWeeks) .. MaxWeeks}
        \cup {timedelta(dd, s) : dd \in (-MaxDays) .. MaxDays, s \in {0, 1}}

(***************************************************************************)
(* Weekday: an operation applied to a weekday.                             *)
(***************************************************************************)
InitWeekday ==
    /\ self \in Weekday
    /\ op = "none" /\ args = <<>> /\ ret = <<>>
    /\ pc = "none" /\ w = <<>>

WeekdayAdd ==
    \E n \in Ints :
        /\ op = "none"
        /\ op' = "Weekday.__add__"
        /\ args' = [other |-> n]
        /\ ret' = Weekday__add__(self, n)
        /\ UNCHANGED <<self, pc, w>>

WeekdaySubInt ==
    \E n \in Ints :
        /\ op = "none"
        /\ op' = "Weekday.__sub__"
        /\ args' = [other |-> n]
        /\ ret' = Weekday__sub__int(self, n)
        /\ UNCHANGED <<self, pc, w>>

WeekdaySubWeekday ==
    \E other \in Weekday :
        /\ op = "none"
        /\ op' = "Weekday.difference"
        /\ args' = [other |-> other]
        /\ ret' = Weekday__sub__Weekday(self, other)
        /\ UNCHANGED <<self, pc, w>>

WeekdayFirstOfYear ==
    \E year \in Years :
        /\ op = "none"
        /\ op' = "Weekday.first_of_year"
        /\ args' = [year |-> year]
        /\ ret' = first_of_year(self, year)
        /\ UNCHANGED <<self, pc, w>>

NextWeekday ==
    \/ WeekdayAdd
    \/ WeekdaySubInt
    \/ WeekdaySubWeekday
    \/ WeekdayFirstOfYear

SpecWeekday == InitWeekday /\ [][NextWeekday]_vars

(***************************************************************************)
(* Week: an operation applied to the week Week(d), d any date of the       *)
(* years WeekYearLo .. WeekYearHi.                                         *)
(***************************************************************************)
InitWeek ==
    /\ self \in {Week(d) : d \in DatesOf(WeekYearLo, WeekYearHi)}
    /\ op = "none" /\ args = <<>> /\ ret = <<>>
    /\ pc = "none" /\ w = <<>>

\* Week.with_date(self.start, first_weekday)
WeekWithDate ==
    \E first_weekday \in Weekday :
        /\ op = "none"
        /\ op' = "Week.with_date"
        /\ args' = [date_ |-> self.start, first_weekday |-> first_weekday]
        /\ ret' = with_date(self.start, first_weekday)
        /\ UNCHANGED <<self, pc, w>>

WeekAdd ==
    \E other \in Others :
        /\ op = "none"
        /\ op' = "Week.__add__"
        /\ args' = [other |-> other]
        /\ ret' = Week__add__(self, other)
        /\ UNCHANGED <<self, pc, w>>

WeekSub ==
    \E other \in Others :
        /\ op = "none"
        /\ op' = "Week.__sub__"
        /\ args' = [other |-> other]
        /\ ret' = Week__sub__(self, other)
        /\ UNCHANGED <<self, pc, w>>

WeekContains ==
    \E date_ \in (self.start - Margin) .. (Week_end(self) + Margin) :
        /\ op = "none"
        /\ op' = "Week.__contains__"
        /\ args' = [date_ |-> date_]
        /\ ret' = Week__contains__(self, date_)
        /\ UNCHANGED <<self, pc, w>>

WeekIter ==
    /\ op = "none"
    /\ op' = "Week.__iter__"
    /\ args' = <<>>
    /\ ret' = Week__iter__(self)
    /\ UNCHANGED <<self, pc, w>>

WeekWeekdayDate ==
    \E weekday \in Weekday :
        /\ op = "none"
        /\ op' = "Week.weekday_date"
        /\ args' = [weekday |-> weekday]
        /\ ret' = weekday_date(self, weekday)
        /\ UNCHANGED <<self, pc, w>>

NextWeek ==
    \/ WeekWithDate
    \/ WeekAdd
    \/ WeekSub
    \/ WeekContains
    \/ WeekIter
    \/ WeekWeekdayDate

SpecWeek == InitWeek /\ [][NextWeek]_vars

(***************************************************************************)
(* Calendar: a week stepped forward one week at a time (w = w + 1) through *)
(* the years YearLo .. YearHi, and printed.                                *)
(***************************************************************************)
InitCalendar ==
    /\ self \in {Week(d) : d \in DatesOf(YearLo, YearHi)}
    /\ op = "none" /\ args = <<>> /\ ret = <<>>
    /\ pc = "none" /\ w = <<>>

\* self = self + 1; args keeps the week before the step
CalendarAdd ==
    LET r == Week__add__(self, int(1))
    IN  /\ r.err = ""
        /\ r.val.start \in DatesOf(YearLo, YearHi)
        /\ op' = "Week.__add__"
        /\ args' = [self |-> self, other |-> int(1)]
        /\ ret' = r
        /\ self' = r.val
        /\ UNCHANGED <<pc, w>>

\* str(self)
CalendarStr ==
    /\ op # "Week.__str__"
    /\ op' = "Week.__str__"
    /\ args' = <<>>
    /\ ret' = Week__str__(self)
    /\ UNCHANGED <<self, pc, w>>

NextCalendar ==
    \/ CalendarAdd
    \/ CalendarStr

SpecCalendar == InitCalendar /\ [][NextCalendar]_vars

(***************************************************************************)
(* weeks_of_year(year, first_weekday): the generator, resumed until it is  *)
(* exhausted; then Week.with_number(year, number, first_weekday) for the   *)
(* numbers around the ones it yielded.                                     *)
(***************************************************************************)
InitYear ==
    /\ self = <<>>
    /\ op = "weeks_of_year"
    /\ args \in [year : Years, first_weekday : Weekday]
    /\ ret = <<>>
    /\ pc = "created" /\ w = <<>>

\* What the loop does with the week w1 it has just computed
Loop(w1) ==
    /\ w' = w1
    /\ IF Week_year(w1) <= args.year
       THEN pc' = "suspended" /\ ret' = Append(ret, w1)
       ELSE pc' = "finished" /\ ret' = ret
    /\ UNCHANGED <<self, op, args>>

\* The first next(): w = Week.with_number(year, 1, first_weekday)
GenStart ==
    /\ op = "weeks_of_year" /\ pc = "created"
    /\ Loop(with_number(args.year, 1, args.first_weekday))

\* A later next(): w += SEVEN_DAYS
GenResume ==
    /\ op = "weeks_of_year" /\ pc = "suspended"
    /\ LET r == Week__add__(w, SEVEN_DAYS)
       IN  IF r.err = ""
           THEN Loop(r.val)
           ELSE pc' = "raised" /\ UNCHANGED <<self, op, args, ret, w>>

GenNext == GenStart \/ GenResume

\* Week.with_number(year, number, first_weekday) once the generator is exhausted
YearWithNumber ==
    \E number \in 0 .. (Len(ret) + 1) :
        /\ op = "weeks_of_year" /\ pc = "finished"
        /\ op' = "Week.with_number"
        /\ args' = [year |-> args.year, first_weekday |-> args.first_weekday,
                    number |-> number]
        /\ self' = with_number(args.year, number, args.first_weekday)
        /\ UNCHANGED <<ret, pc, w>>

NextYear ==
    \/ GenStart
    \/ GenResume
    \/ YearWithNumber

SpecYear == InitYear /\ [][NextYear]_vars /\ WF_vars(GenNext)

\* The default specification: the calendar
Init == InitCalendar

Next == NextCalendar

Spec == SpecCalendar

(***************************************************************************)
(* Properties                                                              *)
(***************************************************************************)
\* The set of the elements of a sequence
Range(seq) == {seq[i] : i \in DOMAIN seq}

\* ISO 8601, stated independently of week.py: week 1 of a year is the
\* Monday-started week that contains January 4.
IsoWeek1Start(year) ==
    LET jan4 == ymd2ord(year, 1, 4)
    IN  jan4 - (isoweekday(jan4) - 1)

\* The ISO week-year of a date
IsoYear(d) ==
    CHOOSE y \in (date_year(d) - 1) .. (date_year(d) + 1) :
        IsoWeek1Start(y) <= d /\ d < IsoWeek1Start(y + 1)

\* The ISO week number of a date
IsoWeek(d) == ((d - IsoWeek1Start(IsoYear(d))) \div 7) + 1

\* A timedelta that is an exact whole-number multiple of 7 days
IsWholeWeeks(td) == td.seconds = 0 /\ td.days % 7 = 0

\* C1: for every year y, first weekday fw and number n from 1 up to the
\* count of weeks weeks_of_year(y, fw) yields, Week.with_number(y, n, fw)
\* has number n, year y and first_weekday fw.
C1_RoundTrip ==
    (op = "Week.with_number" /\ args.number \in 1 .. Len(ret)) =>
        /\ Week_number(self) = args.number
        /\ Week_year(self) = args.year
        /\ first_weekday_of(self) = args.first_weekday

C1_Witness ==
    /\ op = "Week.with_number"
    /\ Len(ret) = 53
    /\ args.number = 53
    /\ args.first_weekday = SUNDAY
    /\ Week_number(self) = 53

\* C2: Week + timedelta raises 'must add only whole weeks' whenever the
\* timedelta is not an exact whole-number multiple of 7 days and returns
\* Week(start + d) when it is; Week + n for a plain int n never raises and
\* returns the week 7 * n days later; Week - other is Week + (-other).
C2_WholeWeeksOnly ==
    /\ (op = "Week.__add__" /\ "days" \in DOMAIN args.other) =>
           IF IsWholeWeeks(args.other)
           THEN ret = [err |-> "", val |-> Week(self.start + args.other.days)]
           ELSE ret = [err |-> "ValueError: must add only whole weeks"]
    /\ (op = "Week.__add__" /\ "value" \in DOMAIN args.other) =>
           ret = [err |-> "", val |-> Week(self.start + 7 * args.other.value)]
    /\ (op = "Week.__sub__" /\ "value" \in DOMAIN args.other) =>
           ret = Week__add__(self, int(-args.other.value))

\* C3: weeks_of_year(y, fw) terminates; it yields first
\* Week.with_number(y, 1, fw), then weeks 7 days apart, each of year y;
\* the week after the last one has a later year; 52 or 53 weeks are yielded.
C3_Yielded ==
    /\ pc # "raised"
    /\ Len(ret) <= 53
    /\ Len(ret) >= 1 =>
           ret[1] = with_number(args.year, 1, args.first_weekday)
    /\ \A i \in 1 .. (Len(ret) - 1) : ret[i + 1].start = ret[i].start + 7
    /\ \A i \in 1 .. Len(ret) : Week_year(ret[i]) = args.year
    /\ pc = "finished" =>
           /\ Len(ret) \in {52, 53}
           /\ Week_year(Week(ret[Len(ret)].start + 7)) > args.year

C3_WeeksOfYear == [](C3_Yielded) /\ <>(pc = "finished")

C3_Witness ==
    /\ op = "weeks_of_year"
    /\ pc = "finished"
    /\ Len(ret) = 53
    /\ args.first_weekday = WEDNESDAY

\* C4: for every Week w, w + 1 starts 7 days later and has either the year
\* of w and the number of w plus 1, or the next year and the number 1.
C4_Consecutive ==
    op = "Week.__add__" =>
        LET a == args.self
            b == self
        IN  /\ b.start = a.start + 7
            /\ \/ Week_year(b) = Week_year(a)
                  /\ Week_number(b) = Week_number(a) + 1
               \/ Week_year(b) = Week_year(a) + 1
                  /\ Week_number(b) = 1

C4_Witness ==
    /\ op = "Week.__add__"
    /\ first_weekday_of(self) = SATURDAY
    /\ Week_number(args.self) = 53
    /\ Week_number(self) = 1
    /\ Week_year(self) = Week_year(args.self) + 1

\* C5: w = Week.with_date(d, fw) has first_weekday fw and
\* w.start <= d < w.start + 7 days, w.start = d when d falls on fw, and
\* Week.with_date(w.start, fw) == w.
C5_WithDate ==
    op = "Week.with_date" =>
        LET d  == args.date_
            fw == args.first_weekday
        IN  /\ first_weekday_of(ret) = fw
            /\ ret.start <= d
            /\ d < ret.start + 7
            /\ isoweekday(d) = fw => ret.start = d
            /\ Week__eq__(with_date(ret.start, fw), ret)

C5_Witness ==
    /\ op = "Week.with_date"
    /\ args.first_weekday = SUNDAY
    /\ args.date_ = ymd2ord(2021, 1, 2)
    /\ ret = Week(ymd2ord(2020, 12, 27))

\* C6: first_of_year(w, y) is a day 1..7 of January of year y, its weekday
\* is w, and no earlier date of year y has weekday w.
C6_FirstOfYear ==
    op = "Weekday.first_of_year" =>
        /\ date_year(ret) = args.year
        /\ date_month(ret) = 1
        /\ date_day(ret) \in 1 .. 7
        /\ for_date(ret) = self
        /\ \A d \in ymd2ord(args.year, 1, 1) .. (ret - 1) : for_date(d) # self

C6_Witness ==
    /\ op = "Weekday.first_of_year"
    /\ self = THURSDAY
    /\ date_day(ret) = 7
    /\ is_leap(args.year)

\* C7: for every weekday w and integer n (negative, |n| > 7 included),
\* w + n and w - n are weekdays 1..7, (w + n) - n = w and w + 7 = w.
C7_WeekdayArithmetic ==
    /\ op = "Weekday.__add__" =>
           /\ ret \in Weekday
           /\ Weekday__sub__int(ret, args.other) = self
           /\ args.other = 7 => ret = self
    /\ op = "Weekday.__sub__" =>
           /\ ret \in Weekday
           /\ Weekday__add__(ret, args.other) = self

C7_Witness ==
    /\ op = "Weekday.__add__"
    /\ self = MONDAY
    /\ args.other < -7
    /\ ret = SUNDAY

\* C8: a week contains its start and not its end = start + 7 days; exactly
\* 7 dates are contained, and iterating yields exactly those, start ..
\* start + 6 in ascending order; the length is 7.
C8_Window ==
    /\ Week_end(self) = self.start + 7
    /\ op = "Week.__contains__" =>
           /\ ret <=> args.date_ \in self.start .. (self.start + 6)
           /\ args.date_ = self.start => ret
           /\ args.date_ = Week_end(self) => ~ret
    /\ op = "Week.__iter__" =>
           LET inside == {d \in (self.start - Margin) .. (Week_end(self) + Margin) :
                             Week__contains__(self, d)}
           IN  /\ Len(ret) = 7
               /\ Week__len__(self) = 7
               /\ \A i \in 1 .. 7 : ret[i] = self.start + (i - 1)
               /\ Range(ret) = inside
               /\ Cardinality(inside) = 7

C8_Witness ==
    /\ op = "Week.__iter__"
    /\ self.start = ymd2ord(2020, 12, 28)
    /\ ret[1] = ymd2ord(2020, 12, 28)
    /\ ret[7] = ymd2ord(2021, 1, 3)

\* C9: weekday_date(wk, d) is a date of wk whose weekday is d, start plus
\* the difference of d and wk's first weekday, a difference in 0..6; and
\* difference(a, b) + difference(b, a) is 0 when a = b and 7 otherwise.
C9_WeekdayDate ==
    op = "Week.weekday_date" =>
        LET a == args.weekday
            b == first_weekday_of(self)
        IN  /\ self.start <= ret /\ ret < Week_end(self)
            /\ for_date(ret) = a
            /\ ret = self.start + Weekday__sub__Weekday(a, b)
            /\ Weekday__sub__Weekday(a, b) \in 0 .. 6
            /\ Weekday__sub__Weekday(a, b) + Weekday__sub__Weekday(b, a)
                   = IF a = b THEN 0 ELSE 7

C9_Witness ==
    /\ op = "Week.weekday_date"
    /\ first_weekday_of(self) = SUNDAY
    /\ args.weekday = SATURDAY
    /\ ret = self.start + 6

\* C10: a week that starts on a Monday has the ISO 8601 week-year and week
\* number of its dates; every week's number is in 1..53, so the string
\* form ends in "-W" and exactly two digits.
C10_Iso ==
    /\ Week_number(self) \in 1 .. 53
    /\ first_weekday_of(self) = MONDAY =>
           \A d \in self.start .. (self.start + 6) :
               /\ IsoYear(d) = Week_year(self)
               /\ IsoWeek(d) = Week_number(self)
    /\ op = "Week.__str__" =>
           LET y == str_int(Week_year(self))
               n == Week_number(self)
           IN  /\ Len(ret) = Len(y) + 4
               /\ SubSeq(ret, 1, Len(y) + 2) = y \o <<"-", "W">>
               /\ ret[Len(y) + 3] = str_int(n \div 10)[1]
               /\ ret[Len(y) + 4] = str_int(n % 10)[1]

C10_Witness ==
    /\ op = "Week.__str__"
    /\ first_weekday_of(self) = MONDAY
    /\ ret = <<"1", "9", "2", "0", "-", "W", "5", "3">>
=============================================================================
